---- MODULE Spec2Model ----
(***************************************************************************)
(* Verification model of the database block of blocksuite:                 *)
(* DatabaseBlockModel (cell table stored as a shared map of row maps, the  *)
(* cell and bulk column operations, the propsUpdated change notification). *)
(***************************************************************************)
EXTENDS Integers, Sequences, FiniteSets, TLC

(***************************************************************************)
(* Bounds of the model.                                                    *)
(***************************************************************************)
\* Largest number written into a cell by updateCell.
MaxNum == 12
\* Number of distinct tag objects that carry the same tag value 'A'.
NumAliases == 2
\* Length of the list of strings written into a cell by updateCell.
MaxLen == 3
\* Number of ids page.generateId produces.
MaxIds == 3
\* Number of frames created by drops on the blank area.
MaxFrames == 1

\* Row ids (children of the database block) and column ids.
Rows == {"r1", "r2"}
Cols == {"c1", "c2"}

\* The id of the database block and the ids of the properties it tracks.
BlockId == "db"

(***************************************************************************)
(* JavaScript values held in a cell. Strings are sequences of characters.  *)
(*   kind "num"  : a number n                                              *)
(*   kind "str"  : a primitive string s                                    *)
(*   kind "list" : an array l of items                                     *)
(*   kind "text" : a Y.Text whose content is s                             *)
(* An item of an array is a tag object {value} with an identity ref >= 1,  *)
(* a primitive string (ref 0) or undefined (ref -1).                       *)
(***************************************************************************)
Num(n) == [kind |-> "num", n |-> n, s |-> <<>>, l |-> <<>>]
Str(s) == [kind |-> "str", n |-> 0, s |-> s, l |-> <<>>]
List(l) == [kind |-> "list", n |-> 0, s |-> <<>>, l |-> l]
YText(s) == [kind |-> "text", n |-> 0, s |-> s, l |-> <<>>]

Tag(ref, value) == [ref |-> ref, value |-> value]
Prim(s) == [ref |-> 0, value |-> s]
Undefined == [ref |-> -1, value |-> <<>>]

IsTag(item) == item.ref >= 1

\* Variant of Truthy: a test that lets the number 0 through.
Truthy_onlyEmptyStringFalsy(v) ==
  CASE v.kind = "str" -> v.s # <<>>
    [] OTHER -> TRUE

\* JavaScript truthiness of a cell value: 0 and '' are falsy, every array
\* and every Y.Text object is truthy.
Truthy(v) ==
  CASE v.kind = "num" -> v.n # 0
    [] v.kind = "str" -> v.s # <<>>
    [] OTHER -> TRUE

(***************************************************************************)
(* String conversion (value + '').                                         *)
(***************************************************************************)
Digits == <<"0", "1", "2", "3", "4", "5", "6", "7", "8", "9">>

RECURSIVE NumToString(_)
NumToString(n) ==
  IF n < 10 THEN <<Digits[n + 1]>>
  ELSE NumToString(n \div 10) \o <<Digits[(n % 10) + 1]>>

ObjectObject ==
  <<"[", "o", "b", "j", "e", "c", "t", " ", "O", "b", "j", "e", "c", "t", "]">>

\* String(item) as Array.prototype.join computes it: undefined gives ''.
ItemToString(item) ==
  IF item.ref = -1 THEN <<>>
  ELSE IF item.ref = 0 THEN item.value
  ELSE ObjectObject

RECURSIVE Join(_)
Join(l) ==
  IF l = <<>> THEN <<>>
  ELSE IF Len(l) = 1 THEN ItemToString(l[1])
  ELSE ItemToString(l[1]) \o <<",">> \o Join(Tail(l))

ToStr(v) ==
  CASE v.kind = "num" -> NumToString(v.n)
    [] v.kind = "str" -> v.s
    [] v.kind = "list" -> Join(v.l)
    [] OTHER -> v.s

(***************************************************************************)
(* State.                                                                  *)
(*   yCells   : the Y.Map of row containers: rows is the mapping row id -> *)
(*              (column id -> cell), order the insertion order of its keys *)
(*              (the order forEach visits them in).                        *)
(*   op       : the last call made on the model, with its arguments,       *)
(*              whether it threw and how many map writes it performed.     *)
(*   pre      : yCells before the last call.                               *)
(*   op0,pre0 : the call before the last and the state before it, kept     *)
(*              when the last two calls are copyCellsByColumn followed by  *)
(*              deleteCellsByColumn.                                       *)
(*   observed : the cell tables seen by the subscribers of propsUpdated,   *)
(*              one per emit, during the last call.                        *)
(***************************************************************************)
VARIABLES yCells, op, pre, op0, pre0, observed

(***************************************************************************)
(* Replication: the block's cell table on two replicas of the document.    *)
(*   replicas : for each replica its copy y of yCells and, for each row    *)
(*              container it holds, the replica that created it.           *)
(*   pending  : the pairs <<a, b>> such that a has made updates that b     *)
(*              has not received yet.                                      *)
(*   written  : the <<row id, column id>> of the cells written by calls    *)
(*              of updateCell on any replica.                              *)
(***************************************************************************)
VARIABLES replicas, pending, written

(***************************************************************************)
(* Columns and the change-event stream.                                    *)
(*   yColumns   : the Y.Map column id -> column definition.                *)
(*   preColumns : yColumns before the last call.                           *)
(*   nextId     : the number of ids page.generateId has produced, plus 1.  *)
(*   colCall    : the column given to the last updateColumn or the id      *)
(*                given to the last deleteColumn, and the id returned.     *)
(*   yEvent     : the last change event delivered by the store outside a   *)
(*                call on this model, as its path.                         *)
(***************************************************************************)
VARIABLES yColumns, preColumns, nextId, colCall, yEvent

cellVars == <<yCells, op, pre, op0, pre0, observed>>

mergeVars == <<replicas, pending, written>>

columnVars == <<yColumns, preColumns, nextId, colCall, yEvent>>

(***************************************************************************)
(* The edgeless page and the drag handle.                                  *)
(*   children     : the block tree, block id -> ids of its children.       *)
(*   selection    : the active selection of the page block.                *)
(*   nextFrame    : the number of frames created by drops, plus 1.         *)
(*   drop         : the arguments of the last onDropCallback and the calls *)
(*                  it made on the store and on the page block.            *)
(*   preChildren, preSelection : the tree and the selection before it.     *)
(***************************************************************************)
VARIABLES children, selection, nextFrame, drop, preChildren, preSelection

dropVars ==
  <<children, selection, nextFrame, drop, preChildren, preSelection>>

(***************************************************************************)
(* The toolbar of the database block.                                      *)
(*   toolbar    : searchState, the value of the search input, the          *)
(*                filtered row ids given to setFilteredRowIds, whether the *)
(*                action popup exists, and whether the click-outside       *)
(*                listeners of the search input and of the action menu     *)
(*                are installed.                                           *)
(*   preToolbar : toolbar before the last event.                           *)
(*   uiCall     : the text typed by the last input event and whether the   *)
(*                handler threw.                                           *)
(*   openedFrom : the searchState before the event that last opened the    *)
(*                action popup, "" when none was opened.                   *)
(***************************************************************************)
VARIABLES toolbar, preToolbar, uiCall, openedFrom

toolbarVars == <<toolbar, preToolbar, uiCall, openedFrom>>

vars ==
  <<yCells, op, pre, op0, pre0, observed, replicas, pending, written,
    yColumns, preColumns, nextId, colCall, yEvent,
    children, selection, nextFrame, drop, preChildren, preSelection,
    toolbar, preToolbar, uiCall, openedFrom>>

EmptyMap == <<>>

Has(map, key) == key \in DOMAIN map

Set(map, key, val) == (key :> val) @@ map

Delete(map, key) == [k \in DOMAIN map \ {key} |-> map[k]]

Call(name) ==
  [name |-> name, rowId |-> "", columnId |-> "", toId |-> "",
   value |-> Num(0), newType |-> "", oldValue |-> Undefined,
   newValue |-> Undefined, target |-> Undefined, threw |-> FALSE,
   writes |-> 0]

NoCall == Call("")

NewCell(columnId, value) == [columnId |-> columnId, value |-> value]


Null == <<>>

\* The Y.Map as created by the schema (internal.Map()): no row container.
EmptyCells == [rows |-> EmptyMap, order |-> <<>>]

(***************************************************************************)
(* The store. A transaction delivers its change event when it ends, and    *)
(* only when something was written; the event carries the path of the      *)
(* mutated property and is handled against the state the transaction left. *)
(***************************************************************************)
transact(body) ==
  IF body.writes > 0
  THEN <<[path |-> <<BlockId, "prop:yCells">>, y |-> body.y]>>
  ELSE <<>>

Includes(path, x) == \E i \in 1..Len(path) : path[i] = x

\* Variant of the listener: every event of this block is answered.
onCreated_anyProp(event) == Includes(event.path, BlockId)

\* The listener installed by onCreated: TRUE when propsUpdated is emitted.
onCreated(event) ==
  /\ Includes(event.path, BlockId)
  /\ \/ Includes(event.path, "prop:yColumns")
     \/ Includes(event.path, "prop:yCells")

\* The states the subscribers of propsUpdated see, one per emit.
RECURSIVE propsUpdated(_)
propsUpdated(events) ==
  IF events = <<>> THEN <<>>
  ELSE (IF onCreated(Head(events)) THEN <<Head(events).y>> ELSE <<>>)
         \o propsUpdated(Tail(events))

(***************************************************************************)
(* Cell reads and writes.                                                  *)
(***************************************************************************)
getCell(y, rowId, columnId) ==
  IF ~Has(y.rows, rowId) THEN Null
  ELSE IF ~Has(y.rows[rowId], columnId) THEN Null
  ELSE [columnId |-> y.rows[rowId][columnId].columnId,
        value |-> y.rows[rowId][columnId].value]

\* The result of a call: the table it leaves, the change events delivered
\* while it ran, whether it threw and the number of map writes it made.
Result(y, events, threw, writes) ==
  [y |-> y, events |-> events, threw |-> threw, writes |-> writes]

\* Variant of updateCell: the container is set in a transaction of its own.
updateCell_twoTransactions(y, rowId, cell) ==
  LET hasRow == Has(y.rows, rowId)
      yRow == IF hasRow THEN y.rows[rowId] ELSE EmptyMap
      y1 == IF hasRow THEN y
            ELSE [rows |-> Set(y.rows, rowId, yRow),
                  order |-> Append(y.order, rowId)]
      y2 == [y1 EXCEPT !.rows[rowId] =
               Set(yRow, cell.columnId, NewCell(cell.columnId, cell.value))]
  IN Result(y2,
            transact([y |-> y1, writes |-> IF hasRow THEN 0 ELSE 1])
              \o transact([y |-> y2, writes |-> 1]),
            FALSE, IF hasRow THEN 1 ELSE 2)

\* Variant of updateCell: a cell that exists is not replaced.
updateCell_keepsExistingCell(y, rowId, cell) ==
  LET hasRow == Has(y.rows, rowId)
      yRow == IF hasRow THEN y.rows[rowId] ELSE EmptyMap
      y1 == IF hasRow THEN y
            ELSE [rows |-> Set(y.rows, rowId, yRow),
                  order |-> Append(y.order, rowId)]
      y2 == IF Has(yRow, cell.columnId) THEN y1
            ELSE [y1 EXCEPT !.rows[rowId] =
                    Set(yRow, cell.columnId,
                        NewCell(cell.columnId, cell.value))]
  IN Result(y2, transact([y |-> y2, writes |-> IF hasRow THEN 1 ELSE 2]),
            FALSE, IF hasRow THEN 1 ELSE 2)

updateCell(y, rowId, cell) ==
  LET hasRow == Has(y.rows, rowId)
      yRow == IF hasRow THEN y.rows[rowId] ELSE EmptyMap
      y1 == IF hasRow THEN y
            ELSE [rows |-> Set(y.rows, rowId, yRow),
                  order |-> Append(y.order, rowId)]
      y2 == [y1 EXCEPT !.rows[rowId] =
               Set(yRow, cell.columnId, NewCell(cell.columnId, cell.value))]
  IN Result(y2, transact([y |-> y2, writes |-> IF hasRow THEN 1 ELSE 2]),
            FALSE, IF hasRow THEN 1 ELSE 2)


(***************************************************************************)
(* Bulk column operations. Each visits the row containers in the order of  *)
(* yCells.forEach inside one transaction. The callback of a row returns    *)
(* the row it leaves, the number of writes it made and whether it threw a  *)
(* TypeError (a value of the wrong shape); an exception ends the loop and  *)
(* the transaction, the rows rewritten before it stay rewritten.           *)
(***************************************************************************)
Row(yRow, writes, threw) == [row |-> yRow, writes |-> writes, threw |-> threw]

Skip(yRow) == Row(yRow, 0, FALSE)

Throw(yRow) == Row(yRow, 0, TRUE)

\* Variant of copyRow: the copy keeps the columnId of its source.
copyRow_keepsFromId(yRow, call) ==
  IF Has(yRow, call.columnId)
  THEN Row(Set(yRow, call.toId,
               NewCell(call.columnId, yRow[call.columnId].value)), 1, FALSE)
  ELSE Skip(yRow)

\* Variant of copyRow: a cell that exists under toId is not overwritten.
copyRow_keepsExistingToCell(yRow, call) ==
  IF Has(yRow, call.columnId) /\ ~Has(yRow, call.toId)
  THEN Row(Set(yRow, call.toId,
               NewCell(call.toId, yRow[call.columnId].value)), 1, FALSE)
  ELSE Skip(yRow)

copyRow(yRow, call) ==
  IF Has(yRow, call.columnId)
  THEN Row(Set(yRow, call.toId,
               NewCell(call.toId, yRow[call.columnId].value)), 1, FALSE)
  ELSE Skip(yRow)

deleteRow(yRow, call) ==
  IF Has(yRow, call.columnId)
  THEN Row(Delete(yRow, call.columnId), 1, FALSE)
  ELSE Skip(yRow)

\* Variant of First: the last element.
First_takesLast(v) ==
  CASE v.kind = "list" -> IF v.l = <<>> THEN Undefined ELSE v.l[Len(v.l)]
    [] v.kind = "str" -> IF v.s = <<>> THEN Undefined
                         ELSE Prim(<<v.s[Len(v.s)]>>)
    [] OTHER -> Undefined

\* (value as string[])[0]
First(v) ==
  CASE v.kind = "list" -> IF v.l = <<>> THEN Undefined ELSE v.l[1]
    [] v.kind = "str" -> IF v.s = <<>> THEN Undefined ELSE Prim(<<v.s[1]>>)
    [] OTHER -> Undefined

convertRow(yRow, call) ==
  IF ~Has(yRow, call.columnId) THEN Skip(yRow)
  ELSE LET value == yRow[call.columnId].value
       IN IF call.newType = "select"
          THEN IF ~Truthy(value) THEN Skip(yRow)
               ELSE Row(Set(yRow, call.columnId,
                            NewCell(call.columnId, List(<<First(value)>>))),
                        1, FALSE)
          ELSE IF call.newType = "rich-text"
          THEN IF ~Truthy(value) THEN Skip(yRow)
               ELSE Row(Set(yRow, call.columnId,
                            NewCell(call.columnId, YText(ToStr(value)))),
                        1, FALSE)
          ELSE Skip(yRow)

\* [...selected]: a number and a Y.Text are not iterable.
Iterable(v) == v.kind \in {"list", "str"}

Spread(v) ==
  IF v.kind = "list" THEN v.l
  ELSE [i \in 1..Len(v.s) |-> Prim(<<v.s[i]>>)]

\* Array.prototype.indexOf: strict equality, which for objects is identity.
\* Positions are counted from 1 here; 0 stands for the result -1.
Same(a, b) ==
  IF IsTag(a) \/ IsTag(b) THEN a.ref = b.ref ELSE a = b

indexOf(l, x) ==
  IF \E i \in 1..Len(l) : Same(l[i], x)
  THEN CHOOSE i \in 1..Len(l) :
         /\ Same(l[i], x)
         /\ \A j \in 1..(i - 1) : ~Same(l[j], x)
  ELSE 0

\* Variant of SetIndex: a value set at the index -1 is added to the array.
SetIndex_appendsAtNotFound(l, index, x) ==
  IF index = 0 THEN Append(l, x) ELSE [l EXCEPT ![index] = x]

\* newSelected[index] = newValue: index -1 sets the property '-1' of the
\* array object and leaves its elements and its length as they are.
SetIndex(l, index, x) ==
  IF index = 0 THEN l ELSE [l EXCEPT ![index] = x]

renameRow(yRow, call) ==
  IF ~Has(yRow, call.columnId) THEN Skip(yRow)
  ELSE LET selected == yRow[call.columnId].value
       IN IF ~Iterable(selected) THEN Throw(yRow)
          ELSE LET newSelected == Spread(selected)
                   index == indexOf(newSelected, call.oldValue)
               IN Row(Set(yRow, call.columnId,
                          NewCell(call.columnId,
                                  List(SetIndex(newSelected, index,
                                                call.newValue)))),
                      1, FALSE)

\* Variant of Keep: the tag is compared with the target by identity.
Keep_byIdentity(item, target) ==
  IF IsTag(item) THEN item.ref # target.ref ELSE TRUE

\* item.value !== target.value; reading .value of undefined throws, of a
\* primitive string gives undefined.
Keep(item, target) == IF IsTag(item) THEN item.value # target.value ELSE TRUE

filter(l, target) == SelectSeq(l, LAMBDA item : Keep(item, target))

deleteTagRow(yRow, call) ==
  IF ~Has(yRow, call.columnId) THEN Skip(yRow)
  ELSE LET selected == yRow[call.columnId].value
       IN IF ~Iterable(selected) THEN Throw(yRow)
          ELSE IF selected.kind # "list" THEN Throw(yRow)
          ELSE IF \E i \in 1..Len(selected.l) : selected.l[i] = Undefined
          THEN Throw(yRow)
          ELSE Row(Set(yRow, call.columnId,
                       NewCell(call.columnId,
                               List(filter(selected.l, call.target)))),
                   1, FALSE)

callback(yRow, call) ==
  CASE call.name = "copyCellsByColumn" -> copyRow(yRow, call)
    [] call.name = "deleteCellsByColumn" -> deleteRow(yRow, call)
    [] call.name = "convertCellsByColumn" -> convertRow(yRow, call)
    [] call.name = "renameSelectedCellTag" -> renameRow(yRow, call)
    [] call.name = "deleteSelectedCellTag" -> deleteTagRow(yRow, call)

\* yCells.forEach from position i on: the table left, the writes made and
\* whether a callback threw.
RECURSIVE forEach(_, _, _)
forEach(y, call, i) ==
  IF i > Len(y.order) THEN [y |-> y, writes |-> 0, threw |-> FALSE]
  ELSE LET rowId == y.order[i]
           r == callback(y.rows[rowId], call)
       IN IF r.threw THEN [y |-> y, writes |-> 0, threw |-> TRUE]
          ELSE LET rest == forEach([y EXCEPT !.rows[rowId] = r.row],
                                   call, i + 1)
               IN [y |-> rest.y, writes |-> r.writes + rest.writes,
                   threw |-> rest.threw]

\* The same loop with one transaction per row: the events delivered.
RECURSIVE forEachTransactingPerRow(_, _, _)
forEachTransactingPerRow(y, call, i) ==
  IF i > Len(y.order) THEN <<>>
  ELSE LET rowId == y.order[i]
           r == callback(y.rows[rowId], call)
           y1 == [y EXCEPT !.rows[rowId] = r.row]
       IN IF r.threw THEN <<>>
          ELSE transact([y |-> y1, writes |-> r.writes])
                 \o forEachTransactingPerRow(y1, call, i + 1)

\* Variant of bulk: the transaction is opened inside the loop.
bulk_transactionPerRow(y, call) ==
  LET body == forEach(y, call, 1)
  IN Result(body.y, forEachTransactingPerRow(y, call, 1),
            body.threw, body.writes)

\* this.page.transact(() => { this.yCells.forEach(yRow => ...) })
bulk(y, call) ==
  LET body == forEach(y, call, 1)
  IN Result(body.y, transact(body), body.threw, body.writes)

copyCellsByColumn(y, fromId, toId) ==
  bulk(y, [Call("copyCellsByColumn") EXCEPT !.columnId = fromId,
                                            !.toId = toId])

deleteCellsByColumn(y, columnId) ==
  bulk(y, [Call("deleteCellsByColumn") EXCEPT !.columnId = columnId])

convertCellsByColumn(y, columnId, newType) ==
  bulk(y, [Call("convertCellsByColumn") EXCEPT !.columnId = columnId,
                                               !.newType = newType])

renameSelectedCellTag(y, columnId, oldValue, newValue) ==
  bulk(y, [Call("renameSelectedCellTag") EXCEPT !.columnId = columnId,
                                                !.oldValue = oldValue,
                                                !.newValue = newValue])

deleteSelectedCellTag(y, columnId, target) ==
  bulk(y, [Call("deleteSelectedCellTag") EXCEPT !.columnId = columnId,
                                                !.target = target])


(***************************************************************************)
(* Columns. A column given to updateColumn is {id?, name}; hasId says      *)
(* whether the id is there. A stored definition is {id, name}.             *)
(***************************************************************************)
Column(hasId, id, name) == [hasId |-> hasId, id |-> id, name |-> name]

Definition(id, name) == [id |-> id, name |-> name]

NoColumnCall == [column |-> Column(FALSE, "", ""), ret |-> ""]

\* page.generateId(): the n-th id the document's generator produces, an id
\* that nothing in the document has.
GeneratedIds == <<"id1", "id2", "id3", "id4", "id5", "id6">>

generateId(n) == GeneratedIds[n]

\* A transaction on yColumns and the change event it delivers.
transactColumns(y, writes) ==
  IF writes > 0
  THEN <<[path |-> <<BlockId, "prop:yColumns">>, y |-> y]>>
  ELSE <<>>

getColumn(columns, id) == IF Has(columns, id) THEN columns[id] ELSE Null

\* Variant of updateColumn: the definition is stored as it was given.
updateColumn_storesGivenId(columns, column, n) ==
  LET id == IF column.hasId THEN column.id ELSE generateId(n)
  IN [columns |-> Set(columns, id, Definition(column.id, column.name)),
      ret |-> id, writes |-> 1]

\* updateColumn with n - 1 ids generated so far: the columns it leaves, the
\* id it returns and the number of map writes.
updateColumn(columns, column, n) ==
  LET id == IF column.hasId THEN column.id ELSE generateId(n)
  IN [columns |-> Set(columns, id, Definition(id, column.name)),
      ret |-> id, writes |-> 1]

\* Variant of deleteColumn: the cells of the column are deleted with it.
deleteColumn_cascades(columns, y, columnId) ==
  [columns |-> Delete(columns, columnId),
   y |-> deleteCellsByColumn(y, columnId).y,
   writes |-> IF Has(columns, columnId) THEN 1 ELSE 0]

\* deleteColumn: the columns and the cell table it leaves, and the number
\* of map writes (deleting a key that is not there writes nothing).
deleteColumn(columns, y, columnId) ==
  [columns |-> Delete(columns, columnId),
   y |-> y,
   writes |-> IF Has(columns, columnId) THEN 1 ELSE 0]

(***************************************************************************)
(* The calls made on the model. A caller makes one call and returns, or    *)
(* calls copyCellsByColumn and then deleteCellsByColumn; op, pre and       *)
(* observed describe the caller's calls until it returns. The arguments    *)
(* are drawn from the domain D of a specification.                         *)
(***************************************************************************)
Idle == op = NoCall

Do(call, r) ==
  /\ yCells' = r.y
  /\ observed' = propsUpdated(r.events)
  /\ op' = [call EXCEPT !.threw = r.threw, !.writes = r.writes]
  /\ pre' = yCells
  /\ IF call.name = "deleteCellsByColumn" /\ op.name = "copyCellsByColumn"
     THEN op0' = op /\ pre0' = pre
     ELSE op0' = NoCall /\ pre0' = EmptyCells
  /\ UNCHANGED <<mergeVars, columnVars, dropVars, toolbarVars>>

UpdateCell(D) ==
  /\ Idle
  /\ \E rowId \in D.rows, columnId \in D.cols, value \in D.vals :
       Do([Call("updateCell") EXCEPT !.rowId = rowId, !.columnId = columnId,
                                     !.value = value],
          updateCell(yCells, rowId, NewCell(columnId, value)))

CopyCellsByColumn(D) ==
  /\ Idle
  /\ \E fromId \in D.cols, toId \in D.cols :
       Do([Call("copyCellsByColumn") EXCEPT !.columnId = fromId,
                                            !.toId = toId],
          copyCellsByColumn(yCells, fromId, toId))

DeleteCellsByColumn(D) ==
  /\ Idle \/ op.name = "copyCellsByColumn"
  /\ \E columnId \in D.cols :
       Do([Call("deleteCellsByColumn") EXCEPT !.columnId = columnId],
          deleteCellsByColumn(yCells, columnId))

ConvertCellsByColumn(D) ==
  /\ Idle
  /\ \E columnId \in D.cols, newType \in {"select", "rich-text"} :
       Do([Call("convertCellsByColumn") EXCEPT !.columnId = columnId,
                                               !.newType = newType],
          convertCellsByColumn(yCells, columnId, newType))

RenameSelectedCellTag(D) ==
  /\ Idle
  /\ \E columnId \in D.cols, oldValue \in D.olds, newValue \in D.news :
       Do([Call("renameSelectedCellTag") EXCEPT !.columnId = columnId,
                                                !.oldValue = oldValue,
                                                !.newValue = newValue],
          renameSelectedCellTag(yCells, columnId, oldValue, newValue))

DeleteSelectedCellTag(D) ==
  /\ Idle
  /\ \E columnId \in D.cols, target \in D.targets :
       Do([Call("deleteSelectedCellTag") EXCEPT !.columnId = columnId,
                                                !.target = target],
          deleteSelectedCellTag(yCells, columnId, target))

\* The ids page.generateId has produced so far.
Generated == {generateId(i) : i \in 1..(nextId - 1)}

UpdateColumn(D) ==
  /\ Idle
  /\ \E hasId \in BOOLEAN, id \in D.cols \cup Generated, name \in D.names :
       LET column == Column(hasId, IF hasId THEN id ELSE "", name)
           r == updateColumn(yColumns, column, nextId)
       IN /\ hasId \/ nextId <= MaxIds
          /\ ~hasId => id \in D.cols
          /\ yColumns' = r.columns
          /\ nextId' = IF hasId THEN nextId ELSE nextId + 1
          /\ colCall' = [column |-> column, ret |-> r.ret]
          /\ preColumns' = yColumns
          /\ pre' = yCells
          /\ op' = [Call("updateColumn") EXCEPT !.writes = r.writes]
          /\ observed' = propsUpdated(transactColumns(yCells, r.writes))
          /\ yEvent' = <<>>
          /\ UNCHANGED <<yCells, op0, pre0, mergeVars, dropVars, toolbarVars>>

DeleteColumn(D) ==
  /\ Idle
  /\ \E columnId \in D.cols \cup Generated :
       LET r == deleteColumn(yColumns, yCells, columnId)
       IN /\ yColumns' = r.columns
          /\ yCells' = r.y
          /\ colCall' = [column |-> Column(TRUE, columnId, ""), ret |-> ""]
          /\ preColumns' = yColumns
          /\ pre' = yCells
          /\ op' = [Call("deleteColumn") EXCEPT !.columnId = columnId,
                                               !.writes = r.writes]
          /\ observed' = propsUpdated(transactColumns(r.y, r.writes))
          /\ yEvent' = <<>>
          /\ UNCHANGED <<nextId, op0, pre0, mergeVars, dropVars, toolbarVars>>

\* The store delivers a change event made elsewhere (another block, another
\* property, a remote update): the listener of onCreated handles it.
OnYEvent(D) ==
  /\ Idle
  /\ \E path \in D.paths :
       /\ yEvent' = path
       /\ op' = Call("onYEvent")
       /\ observed' = propsUpdated(<<[path |-> path, y |-> yCells]>>)
       /\ pre' = yCells
       /\ preColumns' = yColumns
       /\ UNCHANGED <<yCells, op0, pre0, mergeVars, yColumns, nextId,
                      colCall, dropVars, toolbarVars>>

(***************************************************************************)
(* The drag handle of the edgeless page (create-drag-handle.ts). A block   *)
(* element and its model are named by the id of the block; the page block  *)
(* has the frames as children.                                             *)
(***************************************************************************)
PageId == "page"

Blocks == {"a", "b", "d"}

\* The blocks that are databases: the targets of a drop of type database.
Databases == {"d"}

NewFrameIds == <<"f3", "f4", "f5", "f6">>

InitialChildren ==
  [x \in {PageId, "f1", "f2"} \cup Blocks |->
     CASE x = PageId -> <<"f1", "f2">>
       [] x = "f1" -> <<"a">>
       [] x = "f2" -> <<"b", "d">>
       [] OTHER -> <<>>]

NoEditingState == ""

NoSelection == [frameId |-> "", active |-> FALSE, focusId |-> "", point |-> ""]

Selection(frameId, active, focusId, point) ==
  [frameId |-> frameId, active |-> active, focusId |-> focusId,
   point |-> point]

NoFrame == [id |-> "", point |-> "", rect |-> ""]

NoDrop ==
  [point |-> "", blockElements |-> <<>>, editingState |-> NoEditingState,
   type |-> "none", log |-> <<>>, frame |-> NoFrame]

\* page.getParent(model): the id of the parent, "" when there is none.
getParent(ch, x) ==
  IF \E p \in DOMAIN ch : Includes(ch[p], x)
  THEN CHOOSE p \in DOMAIN ch : Includes(ch[p], x)
  ELSE ""

\* isInSamePath(page, child, father): father is child or an ancestor of it.
RECURSIVE isInSamePath(_, _, _)
isInSamePath(ch, child, father) ==
  IF child = father THEN TRUE
  ELSE LET parent == getParent(ch, child)
       IN IF parent = "" THEN FALSE ELSE isInSamePath(ch, parent, father)

\* getClosestFrameBlockElementById(id, pageBlock): the frame that holds the
\* block, "" when there is none.
RECURSIVE getClosestFrameBlockElementById(_, _)
getClosestFrameBlockElementById(ch, id) ==
  LET parent == getParent(ch, id)
  IN IF parent = "" THEN ""
     ELSE IF parent = PageId THEN id
     ELSE getClosestFrameBlockElementById(ch, parent)

\* getBlockElementsExcludeSubtrees(blockElements): the elements that are
\* not inside another element of the list, in their order.
getBlockElementsExcludeSubtrees(ch, blockElements) ==
  LET TopLevel(e) ==
        \A i \in 1..Len(blockElements) :
          blockElements[i] # e => ~isInSamePath(ch, e, blockElements[i])
  IN SelectSeq(blockElements, TopLevel)

\* getRectByBlockElement(element): the bounding rectangle of the element.
getRectByBlockElement(e) == e

Without(seq, models) ==
  LET Kept(x) == ~Includes(models, x) IN SelectSeq(seq, Kept)

Position(seq, x) == CHOOSE i \in 1..Len(seq) : seq[i] = x

\* page.moveBlocks(models, parent, sibling, insertBeforeFlag): the models
\* leave their parents and become children of parent, in their order,
\* immediately before or after sibling, or last when no sibling is given.
moveBlocks(ch, models, parent, sibling, before) ==
  LET removed == [p \in DOMAIN ch |-> Without(ch[p], models)]
      seq == removed[parent]
      at == IF sibling = "" THEN Len(seq)
            ELSE IF before THEN Position(seq, sibling) - 1
            ELSE Position(seq, sibling)
  IN [removed EXCEPT
        ![parent] = SubSeq(seq, 1, at) \o models
                      \o SubSeq(seq, at + 1, Len(seq))]

\* pageBlock.moveBlocksToNewFrame(models, point, rect): the n-th new frame
\* is added to the page at point with the size of rect, and the models are
\* moved into it.
moveBlocksToNewFrame(ch, n, models, point, rect) ==
  LET id == NewFrameIds[n]
      added == (id :> <<>>) @@ [ch EXCEPT ![PageId] = Append(@, id)]
  IN [children |-> moveBlocks(added, models, id, "", FALSE),
      frame |-> [id |-> id, point |-> point, rect |-> rect]]

DropResult(ch, sel, log, frame) ==
  [children |-> ch, selection |-> sel, log |-> log, frame |-> frame]

\* Variant of the test of the drop of a block on itself: a block dropped
\* on a block inside it is not seen.
selfDrop_sameBlockOnly(ch, models, model) ==
  Len(models) = 1 /\ model = models[1]

\* The drop of one block on itself or on a block inside it.
selfDrop(ch, models, model) ==
  Len(models) = 1 /\ isInSamePath(ch, model, models[1])

\* Variant of the move to the target: the models are put before the target
\* for every type but database.
moveToTarget_alwaysBefore(ch, models, model, type) ==
  IF type = "database"
  THEN moveBlocks(ch, models, model, "", FALSE)
  ELSE moveBlocks(ch, models, getParent(ch, model), model, TRUE)

\* The move of the models into the target (type database) or next to it.
moveToTarget(ch, models, model, type) ==
  IF type = "database"
  THEN moveBlocks(ch, models, model, "", FALSE)
  ELSE moveBlocks(ch, models, getParent(ch, model), model, type = "before")

\* Variant of onDropCallback: on a target the undo checkpoint is taken
\* after the move.
onDropCallback_checkpointAfterMove(ch, sel, n, point, els, target, type) ==
  LET models == getBlockElementsExcludeSubtrees(ch, els)
  IN IF models = <<>> THEN DropResult(ch, sel, <<>>, NoFrame)
     ELSE IF target # NoEditingState /\ type # "none" THEN
       IF selfDrop(ch, models, target) THEN
         DropResult(ch, sel, <<>>, NoFrame)
       ELSE
         LET targetFrameBlock ==
               getClosestFrameBlockElementById(ch, target)
             frameBlock == getClosestFrameBlockElementById(ch, models[1])
             moved == moveToTarget(ch, models, target, type)
         IN IF targetFrameBlock # frameBlock
            THEN DropResult(moved,
                            Selection(targetFrameBlock, TRUE, models[1],
                                      point),
                            <<"moveBlocks", "captureSync", "setSelection">>,
                            NoFrame)
            ELSE DropResult(moved, sel, <<"moveBlocks", "captureSync">>,
                            NoFrame)
     ELSE
       LET lifted ==
             moveBlocksToNewFrame(ch, n, models, point,
                                  getRectByBlockElement(models[1]))
       IN DropResult(lifted.children, sel,
                     <<"captureSync", "moveBlocksToNewFrame">>, lifted.frame)

\* onDropCallback(point, blockElements, editingState, type) with n - 1
\* frames created so far: the tree and the selection it leaves, the calls
\* it makes and the frame it creates.
onDropCallback(ch, sel, n, point, blockElements, editingState, type) ==
  LET blockElementsExcludeSubtrees ==
        getBlockElementsExcludeSubtrees(ch, blockElements)
      models == blockElementsExcludeSubtrees
  IN IF blockElementsExcludeSubtrees = <<>> THEN
       DropResult(ch, sel, <<>>, NoFrame)
     ELSE IF editingState # NoEditingState /\ type # "none" THEN
       LET model == editingState
       IN IF selfDrop(ch, models, model) THEN
            DropResult(ch, sel, <<>>, NoFrame)
          ELSE
            LET focusId == models[1]
                targetFrameBlock == getClosestFrameBlockElementById(ch, model)
                frameBlock == getClosestFrameBlockElementById(ch, focusId)
                moved == moveToTarget(ch, models, model, type)
            IN IF targetFrameBlock # frameBlock
               THEN DropResult(moved,
                               Selection(targetFrameBlock, TRUE, focusId,
                                         point),
                               <<"captureSync", "moveBlocks", "setSelection">>,
                               NoFrame)
               ELSE DropResult(moved, sel, <<"captureSync", "moveBlocks">>,
                               NoFrame)
     ELSE
       LET lifted ==
             moveBlocksToNewFrame(
               ch, n, models, point,
               getRectByBlockElement(blockElementsExcludeSubtrees[1]))
       IN DropResult(lifted.children, sel,
                     <<"captureSync", "moveBlocksToNewFrame">>, lifted.frame)

\* The lists of at most two distinct blocks.
Dragged ==
  {<<>>} \cup {<<x>> : x \in Blocks}
    \cup {s \in Blocks \X Blocks : s[1] # s[2]}

\* The drag handle reports a drop. The type is none when no block is
\* hovered and database only over a database; of several dragged blocks
\* none is or holds the target.
OnDropCallback(D) ==
  /\ Idle
  /\ \E point \in D.points, blockElements \in Dragged,
        editingState \in Blocks \cup {NoEditingState},
        type \in {"none", "before", "after", "database"} :
       LET models == getBlockElementsExcludeSubtrees(children, blockElements)
           r == onDropCallback(children, selection, nextFrame, point,
                               blockElements, editingState, type)
       IN /\ editingState = NoEditingState => type = "none"
          /\ type = "database" => editingState \in Databases
          /\ (Len(models) > 1 /\ editingState # NoEditingState) =>
               \A i \in 1..Len(models) :
                 ~isInSamePath(children, editingState, models[i])
          /\ r.frame # NoFrame => nextFrame <= MaxFrames
          /\ children' = r.children
          /\ selection' = r.selection
          /\ nextFrame' = IF r.frame # NoFrame THEN nextFrame + 1 ELSE nextFrame
          /\ drop' = [point |-> point, blockElements |-> blockElements,
                      editingState |-> editingState, type |-> type,
                      log |-> r.log, frame |-> r.frame]
          /\ preChildren' = children
          /\ preSelection' = selection
          /\ op' = Call("onDropCallback")
          /\ UNCHANGED <<yCells, pre, op0, pre0, observed, mergeVars,
                         columnVars, toolbarVars>>

(***************************************************************************)
(* The toolbar of the database block (toolbar.ts). The rows of the         *)
(* database are its children; a row has a title text or none.              *)
(***************************************************************************)
\* targetModel.children, in their order.
Children == <<"r1", "r2">>

\* child.text?.toString() ?? '': r1 has the title 'cA', r2 has no text.
Title(rowId) == IF rowId = "r1" THEN <<"c", "A">> ELSE <<>>

InitialToolbar ==
  [searchState |-> "SearchIcon", searchInput |-> <<>>,
   filteredRowIds |-> <<>>, toolbarAction |-> FALSE,
   searchListener |-> FALSE, actionListener |-> FALSE]

NoUiCall == [value |-> <<>>, threw |-> FALSE]

\* Variant of trim: the text is taken as it is.
trim_asTyped(s) == s

\* String.prototype.trim on a text with no other white space than ' '.
RECURSIVE trimStart(_)
trimStart(s) ==
  IF s # <<>> /\ Head(s) = " " THEN trimStart(Tail(s)) ELSE s

RECURSIVE trimEnd(_)
trimEnd(s) ==
  IF s # <<>> /\ s[Len(s)] = " " THEN trimEnd(SubSeq(s, 1, Len(s) - 1))
  ELSE s

trimBoth(s) == trimEnd(trimStart(s))

trim(s) == trimBoth(s)

\* String.prototype.toLocaleLowerCase on the letters of the texts here.
LowerChar(c) ==
  CASE c = "A" -> "a"
    [] c = "B" -> "b"
    [] c = "C" -> "c"
    [] c = "O" -> "o"
    [] OTHER -> c

toLocaleLowerCase(s) == [i \in 1..Len(s) |-> LowerChar(s[i])]

\* String.prototype.includes.
includes(s, q) ==
  \E i \in 0..(Len(s) - Len(q)) : SubSeq(s, i + 1, i + Len(q)) = q

\* value.map(item => item.value): the value of a tag, undefined for a
\* string.
ItemValue(item) == IF IsTag(item) THEN Prim(item.value) ELSE Undefined

\* The strings a cell value gives to the database map (lines 209-213).
Flatten(value) ==
  IF value.kind = "list"
  THEN [i \in 1..Len(value.l) |-> ItemValue(value.l[i])]
  ELSE <<Prim(ToStr(value))>>

\* item.value of an element that is undefined throws.
FlattenThrows(value) ==
  value.kind = "list" /\ \E i \in 1..Len(value.l) : value.l[i] = Undefined

\* Object.keys(columnMap): the columns of a row of serializedCells.
Keys(columnMap) ==
  LET Present(k) == Has(columnMap, k) IN SelectSeq(<<"c1", "c2">>, Present)

RECURSIVE FlattenAll(_, _)
FlattenAll(columnMap, keys) ==
  IF keys = <<>> THEN <<>>
  ELSE Flatten(columnMap[Head(keys)].value)
         \o FlattenAll(columnMap, Tail(keys))

\* The getter _databaseMap: for every child the title and the flattened
\* values of its cells; threw when a list holds undefined.
_databaseMap(y) ==
  [threw |->
     \E i \in 1..Len(Children) :
       /\ Has(y.rows, Children[i])
       /\ \E k \in DOMAIN y.rows[Children[i]] :
            FlattenThrows(y.rows[Children[i]][k].value),
   map |->
     [rowId \in {Children[i] : i \in 1..Len(Children)} |->
        <<Prim(Title(rowId))>>
          \o (IF Has(y.rows, rowId)
              THEN FlattenAll(y.rows[rowId], Keys(y.rows[rowId]))
              ELSE <<>>)]]

\* items.findIndex(item => item.toLocaleLowerCase().includes(q)) > -1:
\* "found", "none", or "threw" when an item that is undefined is reached.
RECURSIVE findIndex(_, _)
findIndex(items, q) ==
  IF items = <<>> THEN "none"
  ELSE IF Head(items) = Undefined THEN "threw"
  ELSE IF includes(toLocaleLowerCase(Head(items).value), q) THEN "found"
  ELSE findIndex(Tail(items), q)

ToolbarResult(t, threw) == [t |-> t, threw |-> threw]

\* _onSearch for the input value el.value.
_onSearch(t, y, value) ==
  LET inputValue == trim(value)
      typed ==
        [t EXCEPT !.searchInput = value,
                  !.searchState = IF inputValue = <<>> THEN "SearchInput"
                                  ELSE "Searching"]
      databaseMap == _databaseMap(y)
      Found(rowId) ==
        findIndex(databaseMap.map[rowId], toLocaleLowerCase(inputValue))
      Existing(rowId) == Found(rowId) = "found"
  IN IF databaseMap.threw
        \/ \E i \in 1..Len(Children) : Found(Children[i]) = "threw"
     THEN ToolbarResult(typed, TRUE)
     ELSE ToolbarResult(
            [typed EXCEPT !.filteredRowIds = SelectSeq(Children, Existing)],
            FALSE)

\* Variant of _resetSearchStatus: the filtered row ids are kept.
_resetSearchStatus_keepsFilter(t) ==
  [t EXCEPT !.searchInput = <<>>, !.searchState = "SearchIcon"]

_resetSearchStatus(t) ==
  [t EXCEPT !.searchInput = <<>>, !.filteredRowIds = <<>>,
            !.searchState = "SearchIcon"]

\* _onSearchKeydown for the key Escape.
_onSearchKeydown(t) ==
  IF t.searchInput # <<>>
  THEN [t EXCEPT !.searchInput = <<>>, !.searchState = "SearchInput"]
  ELSE _resetSearchStatus(t)

_clearSearch(t) ==
  [t EXCEPT !.searchInput = <<>>, !.searchState = "SearchInput"]

\* _onShowSearch: the mode is set and a click-outside listener is installed
\* on the search input.
_onShowSearch(t) ==
  [t EXCEPT !.searchState = "SearchInput", !.searchListener = TRUE]

_closeToolbarAction(t) == [t EXCEPT !.toolbarAction = FALSE]

\* Variant of _onShowAction: the popup is opened and the mode is kept.
_onShowAction_keepsMode(t) ==
  IF t.toolbarAction THEN _closeToolbarAction(t)
  ELSE [t EXCEPT !.toolbarAction = TRUE, !.actionListener = TRUE]

\* _onShowAction: the popup is closed when there is one; otherwise the mode
\* is set, the popup is made and a click-outside listener is installed on
\* the menu container.
_onShowAction(t) ==
  IF t.toolbarAction THEN _closeToolbarAction(t)
  ELSE [t EXCEPT !.searchState = "Action", !.toolbarAction = TRUE,
                 !.actionListener = TRUE]

\* A mousedown, as the listeners installed by onClickOutside take it: the
\* listener of the search input (lines 269-275) when the target is outside
\* the input, the listener of the menu (lines 305-307) when it is outside
\* the menu container.
mousedown(t, outsideSearchInput, outsideMoreAction) ==
  LET t1 == IF outsideSearchInput /\ t.searchListener
               /\ t.searchState # "Searching"
            THEN [t EXCEPT !.searchState = "SearchIcon",
                           !.searchListener = FALSE]
            ELSE t
  IN IF outsideMoreAction /\ t1.actionListener
     THEN _closeToolbarAction(t1)
     ELSE t1

\* An event of the toolbar has been handled.
Ui(name, value, r) ==
  /\ toolbar' = r.t
  /\ preToolbar' = toolbar
  /\ uiCall' = [value |-> value, threw |-> r.threw]
  /\ openedFrom' = IF r.t.toolbarAction /\ ~toolbar.toolbarAction
                   THEN toolbar.searchState
                   ELSE openedFrom
  /\ op' = Call(name)
  /\ pre' = yCells
  /\ UNCHANGED <<yCells, op0, pre0, observed, mergeVars, columnVars,
                 dropVars>>

Expanded == toolbar.searchState \in {"SearchInput", "Searching"}

\* A click on the search container outside the input.
ClickSearch ==
  /\ Idle
  /\ Ui("click search", <<>>,
        ToolbarResult(_onShowSearch(mousedown(toolbar, TRUE, TRUE)), FALSE))

\* The text of the search input is edited to value.
InputSearch(D) ==
  /\ Idle
  /\ Expanded
  /\ \E value \in D.queries :
       /\ value # toolbar.searchInput
       /\ Ui("input", value, _onSearch(toolbar, yCells, value))

\* Escape is pressed in the search input.
KeydownEscape ==
  /\ Idle
  /\ Expanded
  /\ Ui("escape", <<>>, ToolbarResult(_onSearchKeydown(toolbar), FALSE))

\* A click on the close icon of the search input.
ClickClear ==
  /\ Idle
  /\ Expanded
  /\ Ui("click clear", <<>>,
        ToolbarResult(_clearSearch(mousedown(toolbar, TRUE, TRUE)), FALSE))

\* A click outside the search input and outside the menu container.
ClickOutside ==
  /\ Idle
  /\ Ui("click outside", <<>>,
        ToolbarResult(mousedown(toolbar, TRUE, TRUE), FALSE))

\* A click on the trigger of the action menu.
ClickMoreAction ==
  /\ Idle
  /\ Ui("click more action", <<>>,
        ToolbarResult(_onShowAction(mousedown(toolbar, TRUE, FALSE)), FALSE))

\* The caller returns: the record of its calls is dropped.
Return ==
  /\ ~Idle
  /\ op' = NoCall
  /\ pre' = EmptyCells
  /\ op0' = NoCall
  /\ pre0' = EmptyCells
  /\ observed' = <<>>
  /\ preColumns' = EmptyMap
  /\ colCall' = NoColumnCall
  /\ yEvent' = <<>>
  /\ drop' = NoDrop
  /\ preChildren' = EmptyMap
  /\ preSelection' = NoSelection
  /\ preToolbar' = InitialToolbar
  /\ uiCall' = NoUiCall
  /\ UNCHANGED <<yCells, mergeVars, yColumns, nextId, children, selection,
                 nextFrame, toolbar, openedFrom>>

(***************************************************************************)
(* Replicas. Each of the two replicas calls updateCell on its own copy,    *)
(* replica 1 for column c1 and replica 2 for column c2, and receives the   *)
(* other's updates. The value held under a key of a shared map, when two   *)
(* replicas set it concurrently, is the one set by the higher replica id   *)
(* on both; a row container that loses is dropped with its cells.          *)
(***************************************************************************)
Replicas == {1, 2}

ColOf(i) == IF i = 1 THEN "c1" ELSE "c2"

Replica(y, owner) == [y |-> y, owner |-> owner]

LocalUpdateCell(D) ==
  \E i \in Replicas, rowId \in D.rows, value \in D.vals :
    LET me == replicas[i]
        r == updateCell(me.y, rowId, NewCell(ColOf(i), value))
        owner == IF Has(me.y.rows, rowId) THEN me.owner
                 ELSE Set(me.owner, rowId, i)
    IN /\ replicas' = [replicas EXCEPT ![i] = Replica(r.y, owner)]
       /\ pending' = pending \cup {<<i, j>> : j \in Replicas \ {i}}
       /\ written' = written \cup {<<rowId, ColOf(i)>>}
       /\ UNCHANGED <<cellVars, columnVars, dropVars, toolbarVars>>

\* The row container b holds for rowId once it has received a's updates,
\* as <<creator, cells>>.
mergeRow(a, b, from, rowId) ==
  IF ~Has(b.y.rows, rowId) THEN <<a.owner[rowId], a.y.rows[rowId]>>
  ELSE IF ~Has(a.y.rows, rowId) THEN <<b.owner[rowId], b.y.rows[rowId]>>
  ELSE IF a.owner[rowId] > b.owner[rowId]
  THEN <<a.owner[rowId], a.y.rows[rowId]>>
  ELSE IF a.owner[rowId] < b.owner[rowId]
  THEN <<b.owner[rowId], b.y.rows[rowId]>>
  ELSE LET ra == a.y.rows[rowId]
           rb == b.y.rows[rowId]
       IN <<b.owner[rowId],
            [c \in DOMAIN ra \cup DOMAIN rb |->
               IF c = ColOf(from) /\ Has(ra, c) THEN ra[c]
               ELSE IF Has(rb, c) THEN rb[c] ELSE ra[c]]>>

RECURSIVE appendNew(_, _)
appendNew(order, more) ==
  IF more = <<>> THEN order
  ELSE appendNew(IF \E i \in 1..Len(order) : order[i] = Head(more)
                 THEN order ELSE Append(order, Head(more)),
                 Tail(more))

merge(a, b, from) ==
  LET ids == DOMAIN a.y.rows \cup DOMAIN b.y.rows
  IN Replica([rows |-> [rowId \in ids |-> mergeRow(a, b, from, rowId)[2]],
              order |-> appendNew(b.y.order, a.y.order)],
             [rowId \in ids |-> mergeRow(a, b, from, rowId)[1]])

Receive ==
  \E a \in Replicas, b \in Replicas :
    /\ <<a, b>> \in pending
    /\ replicas' = [replicas EXCEPT ![b] = merge(replicas[a], replicas[b], a)]
    /\ pending' = pending \ {<<a, b>>}
    /\ UNCHANGED <<written, cellVars, columnVars, dropVars, toolbarVars>>

Init ==
  /\ yCells = EmptyCells
  /\ op = NoCall
  /\ pre = EmptyCells
  /\ op0 = NoCall
  /\ pre0 = EmptyCells
  /\ observed = <<>>
  /\ replicas = [i \in Replicas |-> Replica(EmptyCells, EmptyMap)]
  /\ pending = {}
  /\ written = {}
  /\ yColumns = EmptyMap
  /\ preColumns = EmptyMap
  /\ nextId = 1
  /\ colCall = NoColumnCall
  /\ yEvent = <<>>
  /\ children = InitialChildren
  /\ selection = NoSelection
  /\ nextFrame = 1
  /\ drop = NoDrop
  /\ preChildren = EmptyMap
  /\ preSelection = NoSelection
  /\ toolbar = InitialToolbar
  /\ preToolbar = InitialToolbar
  /\ uiCall = NoUiCall
  /\ openedFrom = ""

Next(D) ==
  \/ UpdateCell(D)
  \/ CopyCellsByColumn(D)
  \/ DeleteCellsByColumn(D)
  \/ ConvertCellsByColumn(D)
  \/ RenameSelectedCellTag(D)
  \/ DeleteSelectedCellTag(D)
  \/ Return

\* Tag objects: NumAliases distinct objects with the value 'A', and one
\* object each with the values 'B' and 'C'.
TagA(i) == Tag(i, <<"A">>)
TagB == Tag(NumAliases + 1, <<"B">>)
TagC == Tag(NumAliases + 2, <<"C">>)

\* The array of the first n of these primitive strings.
Letters == <<"x", "y", "z", "w", "v">>
Strings(n) == [i \in 1..n |-> Prim(<<Letters[i]>>)]

\* Tag lists and a number, two rows and two columns.
DomTags ==
  [rows |-> Rows, cols |-> Cols,
   vals |-> {Num(0), List(<<TagA(1), TagC>>)},
   olds |-> {TagA(i) : i \in 1..NumAliases}, news |-> {TagB},
   targets |-> {TagA(NumAliases), TagC}]

\* Scalars and a list of strings, two rows and two columns.
DomScalars ==
  [rows |-> Rows, cols |-> Cols,
   vals |-> {Num(0), Num(MaxNum), Str(<<>>), List(Strings(MaxLen)),
             List(<<>>)},
   olds |-> {TagA(1)}, news |-> {TagB}, targets |-> {TagA(1)}]

Spec == Init /\ [][Next(DomTags)]_vars

SpecConvert == Init /\ [][Next(DomScalars)]_vars

\* Two replicas, two rows, two values.
DomMerge ==
  [rows |-> Rows, cols |-> Cols, vals |-> {Num(0), Num(MaxNum)},
   olds |-> {}, news |-> {}, targets |-> {}]

NextMerge(D) ==
  \/ LocalUpdateCell(D)
  \/ Receive

SpecMerge == Init /\ [][NextMerge(DomMerge)]_vars

\* Columns with two names, cells with one value, and the paths of change
\* events of this block and of another one.
DomColumns ==
  [rows |-> Rows, cols |-> Cols, vals |-> {Num(MaxNum)},
   names |-> {"n1", "n2"},
   paths |-> {<<BlockId, "prop:yCells">>, <<BlockId, "prop:yColumns">>,
              <<BlockId, "prop:yCells", "r1">>, <<BlockId, "prop:title">>,
              <<BlockId>>, <<"other", "prop:yCells">>,
              <<"other", "prop:yColumns", "c1">>,
              <<"other", "prop:yCells", BlockId>>, <<"other", "prop:title">>}]

NextColumns(D) ==
  \/ UpdateColumn(D)
  \/ DeleteColumn(D)
  \/ UpdateCell(D)
  \/ DeleteCellsByColumn(D)
  \/ OnYEvent(D)
  \/ Return

SpecColumns == Init /\ [][NextColumns(DomColumns)]_vars

\* Drops at two points.
DomDrop == [points |-> {"p1", "p2"}]

NextDrop(D) ==
  \/ OnDropCallback(D)
  \/ Return

SpecDrop == Init /\ [][NextDrop(DomDrop)]_vars

\* The texts typed into the search input; no cells.
DomToolbar == [queries |-> {<<>>, <<" ">>, <<"a">>, <<"b">>}]

NextToolbar(D) ==
  \/ ClickSearch
  \/ InputSearch(D)
  \/ KeydownEscape
  \/ ClickClear
  \/ ClickOutside
  \/ ClickMoreAction
  \/ Return

SpecToolbar == Init /\ [][NextToolbar(DomToolbar)]_vars

\* Searches over cells that hold tag lists, and the cells the conversions
\* make of them.
DomSearch ==
  [rows |-> Rows, cols |-> Cols,
   vals |-> {List(<<TagA(1), TagC>>), List(<<>>)},
   queries |-> {<<>>, <<" ">>, <<"a">>, <<"C", " ">>}]

NextSearch(D) ==
  \/ UpdateCell(D)
  \/ ConvertCellsByColumn(D)
  \/ ClickSearch
  \/ InputSearch(D)
  \/ Return

SpecSearch == Init /\ [][NextSearch(DomSearch)]_vars


(***************************************************************************)
(* Properties.                                                             *)
(***************************************************************************)
BulkNames ==
  {"copyCellsByColumn", "deleteCellsByColumn", "convertCellsByColumn",
   "renameSelectedCellTag", "deleteSelectedCellTag"}

HasCell(y, rowId, columnId) == getCell(y, rowId, columnId) # Null

\* C1: after updateCell(rowId, {columnId, value}), whatever the table held
\* before, getCell(rowId, columnId) is exactly {columnId, value}.
C1_RoundTrip ==
  op.name = "updateCell" =>
    getCell(yCells, op.rowId, op.columnId)
      = [columnId |-> op.columnId, value |-> op.value]

\* updateCell has replaced a cell that held another value.
C1_Witness ==
  /\ op.name = "updateCell"
  /\ HasCell(pre, op.rowId, op.columnId)
  /\ getCell(pre, op.rowId, op.columnId).value # op.value
  /\ getCell(yCells, op.rowId, op.columnId).value = op.value

\* C2: in every reachable state every stored cell's columnId field is the
\* key the cell is stored under in its row.
C2_ColumnIdMatchesKey ==
  \A rowId \in DOMAIN yCells.rows :
    \A columnId \in DOMAIN yCells.rows[rowId] :
      yCells.rows[rowId][columnId].columnId = columnId

\* copyCellsByColumn has written a cell under another column's key.
C2_Witness ==
  /\ op.name = "copyCellsByColumn"
  /\ op.columnId # op.toId
  /\ op.writes >= 1
  /\ \E rowId \in DOMAIN yCells.rows :
       /\ Has(yCells.rows[rowId], op.toId)
       /\ yCells.rows[rowId][op.toId].columnId = op.toId

\* The last two calls were copyCellsByColumn(a, b), deleteCellsByColumn(a).
CopiedThenDeleted ==
  /\ op.name = "deleteCellsByColumn"
  /\ op0.name = "copyCellsByColumn"
  /\ op.columnId = op0.columnId

SameValue(cell1, cell2) ==
  IF cell1 = Null \/ cell2 = Null THEN cell1 = cell2
  ELSE cell1.value = cell2.value

\* C3 as stated: for any a and b, after copyCellsByColumn(a, b) and
\* deleteCellsByColumn(a) every row's b-cell equals (holds the value of)
\* its a-cell before the copy, and no row has an a-cell.
C3_AsStated ==
  CopiedThenDeleted =>
    \A rowId \in Rows :
      /\ SameValue(getCell(yCells, rowId, op0.toId),
                   getCell(pre0, rowId, op0.columnId))
      /\ ~HasCell(yCells, rowId, op0.columnId)

\* C3 amended: after copyCellsByColumn(a, b) and deleteCellsByColumn(a) no
\* row has an a-cell and, when a # b, every row that had an a-cell before
\* the copy has the b-cell {columnId: b, value: that a-cell's value} while
\* every row that had no a-cell has its b-cell, present or absent, as before.
C3_CopyThenDelete ==
  CopiedThenDeleted =>
    \A rowId \in Rows :
      /\ ~HasCell(yCells, rowId, op0.columnId)
      /\ op0.columnId # op0.toId =>
           IF HasCell(pre0, rowId, op0.columnId)
           THEN getCell(yCells, rowId, op0.toId)
                  = [columnId |-> op0.toId,
                     value |-> getCell(pre0, rowId, op0.columnId).value]
           ELSE getCell(yCells, rowId, op0.toId)
                  = getCell(pre0, rowId, op0.toId)

\* A copy to another column and the delete, over a row whose a-cell
\* replaced a different b-cell and a row without a-cell that keeps its
\* b-cell.
C3_Witness ==
  /\ CopiedThenDeleted
  /\ op0.columnId # op0.toId
  /\ \E r1 \in Rows, r2 \in Rows :
       /\ HasCell(pre0, r1, op0.columnId)
       /\ HasCell(pre0, r1, op0.toId)
       /\ getCell(pre0, r1, op0.toId).value
            # getCell(pre0, r1, op0.columnId).value
       /\ getCell(yCells, r1, op0.toId).value
            = getCell(pre0, r1, op0.columnId).value
       /\ ~HasCell(pre0, r2, op0.columnId)
       /\ HasCell(yCells, r2, op0.toId)

C5_UpdateCellAtomic ==
  op.name = "updateCell" =>
    \A i \in 1..Len(observed) :
      /\ observed[i] = yCells
      /\ Has(observed[i].rows, op.rowId)
      /\ getCell(observed[i], op.rowId, op.columnId)
           = [columnId |-> op.columnId, value |-> op.value]

\* updateCell has created the row container and notified the subscribers.
C5_Witness ==
  /\ op.name = "updateCell"
  /\ ~Has(pre.rows, op.rowId)
  /\ Has(yCells.rows, op.rowId)
  /\ op.writes = 2
  /\ Len(observed) = 1

\* C6: once every replica has received every update, every cell written by
\* updateCell on some replica is in the merged table.
C6_NoLostUpdate ==
  pending = {} =>
    \A w \in written, i \in Replicas : HasCell(replicas[i].y, w[1], w[2])


\* The first position of l that holds a tag with the value of tag, 0 if none.
ValueIndex(l, tag) ==
  IF \E i \in 1..Len(l) : IsTag(l[i]) /\ l[i].value = tag.value
  THEN CHOOSE i \in 1..Len(l) :
         /\ IsTag(l[i]) /\ l[i].value = tag.value
         /\ \A j \in 1..(i - 1) : ~(IsTag(l[j]) /\ l[j].value = tag.value)
  ELSE 0

\* C7: renameSelectedCellTag, when it returns normally, finds oldTag by the
\* equality of its value: in every row whose tag list at columnId holds a
\* tag with oldTag's value,
\* that position holds newTag afterwards and the other positions are as
\* before.
C7_RenameByValue ==
  (op.name = "renameSelectedCellTag" /\ ~op.threw) =>
    \A rowId \in DOMAIN pre.rows :
      (/\ HasCell(pre, rowId, op.columnId)
       /\ getCell(pre, rowId, op.columnId).value.kind = "list"
       /\ ValueIndex(getCell(pre, rowId, op.columnId).value.l,
                     op.oldValue) # 0) =>
        LET l == getCell(pre, rowId, op.columnId).value.l
        IN getCell(yCells, rowId, op.columnId).value
             = List([l EXCEPT ![ValueIndex(l, op.oldValue)] = op.newValue])

Scalar(v) == v.kind \in {"num", "str"}

Falsy(v) == (v.kind = "num" /\ v.n = 0) \/ (v.kind = "str" /\ v.s = <<>>)

\* C9: convertCellsByColumn(columnId, 'rich-text') turns every scalar cell
\* value at columnId that is not falsy into the text of its string
\* conversion, leaves every row whose cell is absent or falsy (0, '') as it
\* was, and leaves the cells of the other columns as they were.
C9_RichText ==
  (op.name = "convertCellsByColumn" /\ op.newType = "rich-text") =>
    /\ DOMAIN yCells.rows = DOMAIN pre.rows
    /\ \A rowId \in DOMAIN pre.rows :
         /\ \A columnId \in Cols \ {op.columnId} :
              getCell(yCells, rowId, columnId) = getCell(pre, rowId, columnId)
         /\ ~HasCell(pre, rowId, op.columnId) =>
              ~HasCell(yCells, rowId, op.columnId)
         /\ HasCell(pre, rowId, op.columnId) =>
              LET v == getCell(pre, rowId, op.columnId).value
              IN /\ Falsy(v) =>
                      getCell(yCells, rowId, op.columnId)
                        = getCell(pre, rowId, op.columnId)
                 /\ (Scalar(v) /\ ~Falsy(v)) =>
                      getCell(yCells, rowId, op.columnId)
                        = [columnId |-> op.columnId,
                           value |-> YText(IF v.kind = "num"
                                           THEN NumToString(v.n) ELSE v.s)]

\* The conversion has turned the number MaxNum of one row into text and
\* skipped the 0 of another row, next to a cell of the other column.
C9_Witness ==
  /\ op.name = "convertCellsByColumn"
  /\ op.newType = "rich-text"
  /\ \E r1 \in Rows, r2 \in Rows, columnId \in Cols \ {op.columnId} :
       /\ getCell(pre, r1, op.columnId)
            = [columnId |-> op.columnId, value |-> Num(MaxNum)]
       /\ getCell(yCells, r1, op.columnId).value.kind = "text"
       /\ Len(getCell(yCells, r1, op.columnId).value.s) = 2
       /\ getCell(pre, r2, op.columnId)
            = [columnId |-> op.columnId, value |-> Num(0)]
       /\ getCell(yCells, r2, op.columnId).value = Num(0)
       /\ HasCell(yCells, r1, columnId)

\* The tags of l whose value is not value, in their order in l.
RECURSIVE Remaining(_, _)
Remaining(l, value) ==
  IF l = <<>> THEN <<>>
  ELSE IF Head(l).value = value THEN Remaining(Tail(l), value)
  ELSE <<Head(l)>> \o Remaining(Tail(l), value)

OtherColumnsKept(id) ==
  /\ DOMAIN yColumns \ {id} = DOMAIN preColumns \ {id}
  /\ \A k \in DOMAIN yColumns \ {id} : yColumns[k] = preColumns[k]

\* C11: every stored column definition has its key as id; updateColumn
\* without id stores the column under a generated id that no column had, and
\* overwrites none; updateColumn with an id replaces the definition of that
\* column only; in both cases getColumn of the returned id gives the given
\* definition with that id.
C11_ColumnIdIsKey ==
  /\ \A k \in DOMAIN yColumns : yColumns[k].id = k
  /\ op.name = "updateColumn" =>
       /\ getColumn(yColumns, colCall.ret)
            = Definition(colCall.ret, colCall.column.name)
       /\ OtherColumnsKept(colCall.ret)
       /\ IF colCall.column.hasId
          THEN colCall.ret = colCall.column.id
          ELSE /\ ~Has(preColumns, colCall.ret)
               /\ DOMAIN yColumns = DOMAIN preColumns \cup {colCall.ret}

\* updateColumn without id has added a third column to two, one of them
\* stored under an id the caller gave and one under a generated id.
C11_Witness ==
  /\ op.name = "updateColumn"
  /\ ~colCall.column.hasId
  /\ Cardinality(DOMAIN preColumns) = 2
  /\ Cardinality(DOMAIN yColumns) = 3
  /\ \E k \in DOMAIN preColumns : k \in Cols
  /\ \E k \in DOMAIN preColumns : k \in Generated
  /\ getColumn(yColumns, colCall.ret).name = colCall.column.name

\* C12: deleteColumn(id) removes the definition of the column and nothing
\* else: the cell table, the cells under the deleted column id included, is
\* what it was, and so is every other column definition; getCell still reads
\* the cells of the deleted column.
C12_DeleteColumnKeepsCells ==
  op.name = "deleteColumn" =>
    /\ yCells = pre
    /\ ~Has(yColumns, op.columnId)
    /\ OtherColumnsKept(op.columnId)
    /\ \A rowId \in Rows :
         HasCell(pre, rowId, op.columnId) =>
           getCell(yCells, rowId, op.columnId)
             = getCell(pre, rowId, op.columnId)

\* deleteColumn has removed one of two columns, and a row has a cell under
\* the removed column id.
C12_Witness ==
  /\ op.name = "deleteColumn"
  /\ Has(preColumns, op.columnId)
  /\ Cardinality(DOMAIN yColumns) = 1
  /\ \E rowId \in Rows :
       /\ HasCell(yCells, rowId, op.columnId)
       /\ getCell(yCells, rowId, op.columnId).value = Num(MaxNum)

\* C13: for a change event delivered by the store, propsUpdated is emitted
\* once when the path of the event has the id of this block and one of
\* prop:yColumns and prop:yCells, and not at all otherwise.
C13_EmitPerTrackedEvent ==
  op.name = "onYEvent" =>
    Len(observed)
      = IF /\ \E i \in 1..Len(yEvent) : yEvent[i] = BlockId
           /\ \E i \in 1..Len(yEvent) :
                yEvent[i] \in {"prop:yColumns", "prop:yCells"}
        THEN 1
        ELSE 0

\* An event of the columns of this block has been delivered and propsUpdated
\* has been emitted once.
C13_Witness ==
  /\ op.name = "onYEvent"
  /\ yEvent = <<BlockId, "prop:yColumns">>
  /\ Len(observed) = 1

(***************************************************************************)
(* The drag handle (SpecDrop).                                             *)
(***************************************************************************)
\* The models of the last drop: the dragged elements that are not inside
\* another dragged element.
DroppedModels ==
  getBlockElementsExcludeSubtrees(preChildren, drop.blockElements)

\* The last drop had a target and a type other than none.
OnTarget == drop.editingState # NoEditingState /\ drop.type # "none"

\* The last drop was the drop of one model on a target in its own path.
SelfDrop ==
  /\ OnTarget
  /\ Len(DroppedModels) = 1
  /\ isInSamePath(preChildren, drop.editingState, DroppedModels[1])

\* C14: a drop of exactly one model on a target in the same path, with a
\* type other than none, makes no call on the store (no undo checkpoint, no
\* moveBlocks, no new container), and leaves the block tree and the
\* selection as they were.
C14_SelfDropNoop ==
  (op.name = "onDropCallback" /\ SelfDrop) =>
    /\ drop.log = <<>>
    /\ drop.frame = NoFrame
    /\ children = preChildren
    /\ selection = preSelection

\* A database and a block inside it were dragged and dropped before that
\* block, with a selection set by an earlier drop: nothing has changed.
C14_Witness ==
  /\ op.name = "onDropCallback"
  /\ SelfDrop
  /\ drop.blockElements = <<"d", "a">>
  /\ drop.editingState = "a"
  /\ drop.type = "before"
  /\ getParent(preChildren, "a") = "d"
  /\ preSelection # NoSelection
  /\ drop.log = <<>>

\* The models are the children of parent that come immediately before the
\* block target, in their order.
ImmediatelyBefore(ch, parent, models, target) ==
  \E i \in 1..Len(ch[parent]) :
    /\ ch[parent][i] = target
    /\ i > Len(models)
    /\ \A k \in 1..Len(models) :
         ch[parent][i - Len(models) + k - 1] = models[k]

\* The models are the children of parent that come immediately after the
\* block target, in their order.
ImmediatelyAfter(ch, parent, models, target) ==
  \E i \in 1..Len(ch[parent]) :
    /\ ch[parent][i] = target
    /\ i + Len(models) <= Len(ch[parent])
    /\ \A k \in 1..Len(models) : ch[parent][i + k] = models[k]

\* What the drop dispatch leaves for the type and the target of the drop.
Dispatched ==
  CASE drop.editingState # NoEditingState /\ drop.type = "database" ->
         \A i \in 1..Len(DroppedModels) :
           getParent(children, DroppedModels[i]) = drop.editingState
    [] drop.editingState # NoEditingState /\ drop.type = "before" ->
         ImmediatelyBefore(children, getParent(preChildren, drop.editingState),
                           DroppedModels, drop.editingState)
    [] drop.editingState # NoEditingState /\ drop.type = "after" ->
         ImmediatelyAfter(children, getParent(preChildren, drop.editingState),
                          DroppedModels, drop.editingState)
    [] drop.editingState = NoEditingState ->
         /\ ~Has(preChildren, drop.frame.id)
         /\ Has(children, drop.frame.id)
         /\ DOMAIN children = DOMAIN preChildren \cup {drop.frame.id}
         /\ Includes(children[PageId], drop.frame.id)
         /\ children[drop.frame.id] = DroppedModels
         /\ drop.frame.point = drop.point
         /\ drop.frame.rect = getRectByBlockElement(DroppedModels[1])
    [] OTHER -> TRUE

SourceFrame(id) == getClosestFrameBlockElementById(preChildren, id)

\* The last drop moved a model out of another frame than the frame of the
\* target.
CrossesFrames ==
  \E i \in 1..Len(DroppedModels) :
    SourceFrame(DroppedModels[i]) # SourceFrame(drop.editingState)

\* C16: after a drop that moves blocks next to or into a target, the
\* selection focuses the first dragged model in the frame of the target at
\* the drop point when some dragged model came from another frame, and is
\* what it was when all of them came from the frame of the target.
C16_SelectionFollowsMove ==
  (op.name = "onDropCallback" /\ OnTarget /\ DroppedModels # <<>>
     /\ ~SelfDrop) =>
    IF CrossesFrames
    THEN /\ selection.frameId = SourceFrame(drop.editingState)
         /\ selection.focusId = DroppedModels[1]
         /\ selection.point = drop.point
    ELSE selection = preSelection

(***************************************************************************)
(* The toolbar: search (SpecSearch) and modes (SpecToolbar).               *)
(***************************************************************************)
\* The last event was an input event whose text, trimmed, is empty.
EmptyQuery == op.name = "input" /\ trimBoth(uiCall.value) = <<>>

Fields(value) ==
  IF value.kind = "list"
  THEN {value.l[i].value : i \in {j \in 1..Len(value.l) : IsTag(value.l[j])}}
  ELSE {ToStr(value)}

\* The query q, in lower case, is a substring of the title of the row or of
\* a text of one of its cells.
Matches(rowId, q) ==
  \/ includes(toLocaleLowerCase(Title(rowId)), q)
  \/ /\ Has(yCells.rows, rowId)
     /\ \E columnId \in DOMAIN yCells.rows[rowId] :
          \E f \in Fields(yCells.rows[rowId][columnId].value) :
            includes(toLocaleLowerCase(f), q)

\* The child rows that match the text typed by the last input event.
Matching ==
  LET Match(rowId) ==
        Matches(rowId, toLocaleLowerCase(trimBoth(uiCall.value)))
  IN SelectSeq(Children, Match)

\* C18: after a search with a non-empty query the filtered set is the
\* child rows, in child order, whose title or one of whose flattened cell
\* values has the trimmed query as a substring, letter case apart.
C18_FilteredIsMatching ==
  (op.name = "input" /\ trimBoth(uiCall.value) # <<>>) =>
    toolbar.filteredRowIds = Matching

\* The filtered set hides no child row.
NoRowHidden ==
  \/ toolbar.filteredRowIds = <<>>
  \/ \A i \in 1..Len(Children) : Includes(toolbar.filteredRowIds, Children[i])

\* C19: Escape with empty text in the mode SearchInput or Searching, and a
\* click outside the search input in the mode SearchInput, leave the mode
\* SearchIcon and the empty filtered set; and in the mode SearchIcon no row
\* is hidden by the filtered set.
C19_CollapseClearsFilter ==
  /\ (op.name = "escape" /\ preToolbar.searchInput = <<>>) =>
       /\ toolbar.searchState = "SearchIcon"
       /\ toolbar.filteredRowIds = <<>>
  /\ (op.name = "click outside"
        /\ preToolbar.searchState = "SearchInput") =>
       /\ toolbar.searchState = "SearchIcon"
       /\ toolbar.filteredRowIds = <<>>
  /\ toolbar.searchState = "SearchIcon" => NoRowHidden

\* C20: a click on the trigger of the action menu with no popup opens the
\* popup and sets the mode Action; a click on it with the popup open in the
\* mode Action closes the popup and sets the mode that was there before the
\* popup was opened; and the mode is Action only while the popup is open.
C20_ActionMenuToggle ==
  /\ (op.name = "click more action" /\ ~preToolbar.toolbarAction) =>
       /\ toolbar.toolbarAction
       /\ toolbar.searchState = "Action"
  /\ (op.name = "click more action" /\ preToolbar.toolbarAction
        /\ preToolbar.searchState = "Action") =>
       /\ ~toolbar.toolbarAction
       /\ toolbar.searchState = openedFrom
  /\ toolbar.searchState = "Action" => toolbar.toolbarAction

(***************************************************************************)
(* The drag handle: undo checkpoints and abandoned drops (SpecDrop).       *)
(***************************************************************************)
\* The calls of a drop that change the block tree.
Mutating == {"moveBlocks", "moveBlocksToNewFrame"}

\* The positions of the log of the last drop that hold a call of names.
Calls(names) == {i \in 1..Len(drop.log) : drop.log[i] \in names}

\* C21: a drop that changes the block tree calls captureSync exactly once,
\* as its first call and immediately before its first mutating call, and
\* not after a mutating call; and a drop that calls captureSync makes a
\* mutating call after it.
C21_CheckpointBeforeMutation ==
  op.name = "onDropCallback" =>
    /\ children # preChildren => Calls(Mutating) # {}
    /\ Calls(Mutating) # {} =>
         /\ Calls({"captureSync"}) = {1}
         /\ 2 \in Calls(Mutating)
    /\ \A i \in Calls({"captureSync"}) :
         \E j \in Calls(Mutating) : j > i

\* A drop has moved a block before a block of another frame: the tree has
\* changed, and the drop called captureSync, moveBlocks and setSelection in
\* this order.
C21_Witness ==
  /\ op.name = "onDropCallback"
  /\ drop.type = "before"
  /\ children # preChildren
  /\ drop.log = <<"captureSync", "moveBlocks", "setSelection">>

\* C22: in the mode SearchInput the text of the search input, trimmed, is
\* empty, and in the mode Searching it is not; and an input event leaves
\* the mode Searching exactly when the trimmed text is not empty.
C22_ModeMatchesQuery ==
  /\ toolbar.searchState = "SearchInput" =>
       trimBoth(toolbar.searchInput) = <<>>
  /\ toolbar.searchState = "Searching" =>
       trimBoth(toolbar.searchInput) # <<>>
  /\ op.name = "input" =>
       (toolbar.searchState = "Searching"
          <=> trimBoth(uiCall.value) # <<>>)

\* The last drop was abandoned: it had no model, or it had the type none
\* over a hovered block.
Abandoned ==
  \/ DroppedModels = <<>>
  \/ drop.editingState # NoEditingState /\ drop.type = "none"

\* C23: an abandoned drop makes no call on the store (no checkpoint, no
\* moveBlocks, no new container) and leaves the block tree as it was; and
\* a drop creates a container only when it has no target.
C23_AbandonedDropNoop ==
  op.name = "onDropCallback" =>
    /\ Abandoned =>
         /\ drop.log = <<>>
         /\ drop.frame = NoFrame
         /\ children = preChildren
    /\ drop.frame # NoFrame => drop.editingState = NoEditingState

(***************************************************************************)
(* renameSelectedCellTag and the tag that is not found (Spec).             *)
(***************************************************************************)
\* The tag is an element of the list, as indexOf finds it.
InList(l, tag) == \E i \in 1..Len(l) : Same(l[i], tag)

\* C24: renameSelectedCellTag leaves every tag list at columnId with the
\* length it had and with at most one position changed, and leaves a list
\* that does not hold oldTag with the same elements in the same order.
C24_RenameKeepsLength ==
  op.name = "renameSelectedCellTag" =>
    \A rowId \in DOMAIN pre.rows :
      (/\ HasCell(pre, rowId, op.columnId)
       /\ getCell(pre, rowId, op.columnId).value.kind = "list") =>
        LET l == getCell(pre, rowId, op.columnId).value.l
            v == getCell(yCells, rowId, op.columnId).value
        IN /\ v.kind = "list"
           /\ Len(v.l) = Len(l)
           /\ Cardinality({i \in 1..Len(l) : v.l[i] # l[i]}) <= 1
           /\ ~InList(l, op.oldValue) => v.l = l

\* renameSelectedCellTag has run over a row whose list of two tags does not
\* hold oldTag and has left that list as it was, and over a row whose list
\* holds oldTag and has newTag in its place now.
C24_Witness ==
  /\ op.name = "renameSelectedCellTag"
  /\ ~op.threw
  /\ \E r1 \in Rows, r2 \in Rows :
       /\ HasCell(pre, r1, op.columnId)
       /\ HasCell(pre, r2, op.columnId)
       /\ getCell(pre, r1, op.columnId).value.kind = "list"
       /\ getCell(pre, r2, op.columnId).value.kind = "list"
       /\ ~InList(getCell(pre, r1, op.columnId).value.l, op.oldValue)
       /\ Len(getCell(pre, r1, op.columnId).value.l) = 2
       /\ getCell(yCells, r1, op.columnId).value
            = getCell(pre, r1, op.columnId).value
       /\ InList(getCell(pre, r2, op.columnId).value.l, op.oldValue)
       /\ InList(getCell(yCells, r2, op.columnId).value.l, op.newValue)

====
